---- MODULE Spec2Model ----
(***************************************************************************)
(* Model of the archive extraction engine of CalielBR/archive_extractor.    *)
(*                                                                         *)
(* Two implementations of the engine live in the repository:               *)
(*   - ArchiveExtractor.extract_archive in src/archive_extractor.py (and    *)
(*     its line-for-line Portuguese twin src/extrair_arquivos.py),         *)
(*   - the module-level extract_archive of src/unzipfull.py.               *)
(* The variable impl selects which one a behaviour follows.                *)
(*                                                                         *)
(* Paths and file names are sequences of one-character strings, so that    *)
(* lower(), endswith(), "in", split() and the f-string that builds the     *)
(* segment names are computed character by character.                      *)
(* The archive codecs (zipfile, rarfile, py7zr), the filesystem and the    *)
(* caller's progress callback are the environment: the number of entries   *)
(* of an archive and every fault they raise are nondeterministic choices.  *)
(***************************************************************************)
EXTENDS Integers, Sequences, FiniteSets, TLC

VARIABLES
    impl,               \* which implementation the call runs
    fs,                 \* the filesystem: existing path |-> bytes
    fs0,                \* history: the filesystem when the call was made
    dest,               \* entries written to the destination folder
    archive_path,       \* argument: the source path
    progress_callback,  \* argument: TRUE when a callback is supplied
    pc,                 \* position of the call
    file_size_bytes,    \* os.path.getsize(archive_path), NoSize before
    handler,            \* the handler dispatched to, "none" before
    folder,             \* _extract_split_zip: os.path.dirname(archive_path)
    base_name,          \* _extract_split_zip: name before ".zip."
    parts,              \* join_zip_parts: the collected segment paths
    i,                  \* join_zip_parts: the index being probed
    written,            \* join_zip_parts: how many parts were appended
    merged_path,        \* join_zip_parts: the merged file, NoPath before
    opened,             \* how many times a codec opened an archive
    total_files,        \* len(file_list) of the opened archive
    entry_i,            \* entries extracted and reported so far
    calls,              \* the progress callback's invocations, in order
    outcome,            \* the returned message, NoOutcome before
    raised,             \* the exception class that escaped, "none" if none
    phases,             \* history: the phases the call went through
    files,              \* the window: the paths in the file list
    destination,        \* the window: TRUE when a destination folder is set
    ui,                 \* the window: what the Extract button led to
    worker_pc,          \* position of the batch thread, "none" before
    clicks,             \* how many times Extract was pressed
    idx,                \* extract_files: the loop variable of the batch thread
    extra_threads,      \* the batch threads of the later presses of Extract
    current_file_index, \* status.current_file_index
    attempted,          \* history: the jobs extract_archive was called for
    results_text,       \* the lines of the result log
    widget_writes,      \* history: which thread configured which widget
    countdown_window,   \* TRUE while the warning window is open
    countdown_running,  \* self.countdown_running
    countdown_message,  \* why the warning window was opened, "none" before
    countdown_pc,       \* position of each countdown thread, in order of start
    sec,                \* countdown: seconds each thread has still to wait
    stopped,            \* history: the countdowns stop_countdown was called for
    after_queue,        \* callbacks handed to root.after, oldest first
    quit                \* TRUE once root.quit() was called

\* the state of extract_archive and of its history
engine == <<impl, fs, fs0, dest, archive_path, progress_callback, pc,
            file_size_bytes, handler, folder, base_name, parts, i, written,
            merged_path, opened, total_files, entry_i, calls, outcome, raised,
            phases>>

\* the state of the window and of its threads
batch == <<files, destination, ui, worker_pc, clicks, idx, extra_threads,
           current_file_index, attempted,
           results_text>>
countdown == <<countdown_window, countdown_running, countdown_message,
               countdown_pc, sec, stopped, after_queue>>
gui == <<batch, countdown, widget_writes, quit>>

vars == <<engine, gui>>

(***************************************************************************)
(* Bounds of the model.                                                    *)
(***************************************************************************)
MaxSegments == 3
MaxEntries == 2
MaxBytes == 4
MaxChunk == 2
MaxJobs == 2
MaxSeconds == 2
MaxClicks == 2

(***************************************************************************)
(* Strings.                                                                *)
(***************************************************************************)
\* str.lower() on the characters the paths of the model are made of
LowerChar(c) ==
    CASE c = "A" -> "a"
      [] c = "I" -> "i"
      [] c = "P" -> "p"
      [] c = "R" -> "r"
      [] c = "Z" -> "z"
      [] OTHER -> c

\* mutant of Lower: the path is tested as given, lower() forgotten
Lower_AsGiven(s) == s

Lower(s) == [k \in 1..Len(s) |-> LowerChar(s[k])]

\* str.endswith(suffix)
EndsWith(s, suffix) ==
    /\ Len(s) >= Len(suffix)
    /\ SubSeq(s, Len(s) - Len(suffix) + 1, Len(s)) = suffix

\* the positions at which sub occurs in s
Occurrences(s, sub) ==
    {k \in 1..(Len(s) - Len(sub) + 1) : SubSeq(s, k, k + Len(sub) - 1) = sub}

\* sub in s
Contains(s, sub) == Occurrences(s, sub) # {}

Min(S) == CHOOSE x \in S : \A y \in S : x <= y
Max(S) == CHOOSE x \in S : \A y \in S : x >= y

\* s.split(sep)[0]: everything before the first occurrence of sep
SplitFirst(s, sep) ==
    IF Contains(s, sep) THEN SubSeq(s, 1, Min(Occurrences(s, sep)) - 1) ELSE s

Slash == <<"/">>

\* os.path.basename: what follows the last "/"
basename(p) ==
    IF Contains(p, Slash) THEN SubSeq(p, Max(Occurrences(p, Slash)) + 1, Len(p)) ELSE p

\* os.path.dirname: what precedes the last "/" (the paths of the model have
\* no leading or doubled slash)
dirname(p) ==
    IF Contains(p, Slash) THEN SubSeq(p, 1, Max(Occurrences(p, Slash)) - 1) ELSE <<>>

\* os.path.join(a, b)
join(a, b) ==
    IF a = <<>> THEN b
    ELSE IF EndsWith(a, Slash) THEN a \o b
    ELSE a \o Slash \o b

DigitChars == <<"0", "1", "2", "3", "4", "5", "6", "7", "8", "9">>

RECURSIVE Decimal(_)
Decimal(n) ==
    IF n < 10 THEN <<DigitChars[n + 1]>>
    ELSE Decimal(n \div 10) \o <<DigitChars[(n % 10) + 1]>>

\* f"{n:03d}": decimal, zero-padded to at least three digits
Pad3(n) ==
    LET d == Decimal(n)
    IN  IF Len(d) >= 3 THEN d ELSE [k \in 1..(3 - Len(d)) |-> "0"] \o d

DotZip == <<".", "z", "i", "p">>
DotRar == <<".", "r", "a", "r">>
Dot7z == <<".", "7", "z">>
DotZipDot == <<".", "z", "i", "p", ".">>

(***************************************************************************)
(* Constants of the program and of the model's values.                     *)
(***************************************************************************)
Impls == {"archive_extractor", "unzipfull"}

\* 1024 ** 3, the divisor of file_size_gb
GiB == 1073741824

\* a value no file size takes
NoSize == 0 - 1
NoPath == <<"?">>
NoName == <<"?">>

\* file_size_gb = file_size_bytes / (1024 ** 3), kept as the exact fraction
SizeGB(bytes) == [num |-> bytes, den |-> GiB]

NoGB == SizeGB(NoSize)
NoOutcome == [kind |-> "none", name |-> NoName, size |-> NoGB]

\* the exception classes told apart by the except clauses; "Exception" stands
\* for every class none of them names (RuntimeError, tk.TclError, ...)
ExcClasses == {"BadZipFile", "RarError", "Bad7zFile", "OSError", "Exception"}

\* except clause of extract_archive
OuterCaught(m) ==
    IF m = "archive_extractor"
    THEN {"BadZipFile", "RarError", "Bad7zFile", "OSError"}
    ELSE {"BadZipFile", "RarError", "Bad7zFile"}

\* except clause of _extract_split_zip
SplitCaught == {"BadZipFile", "OSError"}

\* except clause of join_zip_parts (juntar_partes_zip has none)
JoinCaught(m) == IF m = "archive_extractor" THEN {"OSError"} ELSE {}

\* what the codec of a handler raises when opening or extracting
CodecFaults(h) ==
    CASE h = "rar" -> {"RarError", "OSError"}
      [] h = "7z" -> {"Bad7zFile", "OSError", "Exception"}
      [] OTHER -> {"BadZipFile", "OSError", "Exception"}

\* mutant of Classify: the ".zip." test placed before the suffix tests
Classify_SplitFirst(p) ==
    LET lower == Lower(p)
    IN  IF Contains(lower, DotZipDot) THEN "split"
        ELSE IF EndsWith(lower, DotZip) THEN "zip"
        ELSE IF EndsWith(lower, DotRar) THEN "rar"
        ELSE IF EndsWith(lower, Dot7z) THEN "7z"
        ELSE "unsupported"

\* mutant of Classify: the final else treats the path as a split archive
Classify_NoElse(p) ==
    LET lower == Lower(p)
    IN  IF EndsWith(lower, DotZip) THEN "zip"
        ELSE IF EndsWith(lower, DotRar) THEN "rar"
        ELSE IF EndsWith(lower, Dot7z) THEN "7z"
        ELSE "split"

\* the if/elif chain of extract_archive on the lower-cased path
Classify(p) ==
    LET lower == Lower(p)
    IN  IF EndsWith(lower, DotZip) THEN "zip"
        ELSE IF EndsWith(lower, DotRar) THEN "rar"
        ELSE IF EndsWith(lower, Dot7z) THEN "7z"
        ELSE IF Contains(lower, DotZipDot) THEN "split"
        ELSE "unsupported"

\* base_name = os.path.basename(archive_path).split(".zip.")[0]
BaseNameOf(p) == SplitFirst(basename(p), DotZipDot)

\* f"{base_name}.zip.{i:03d}" inside folder
PartPath(dir, base, n) == join(dir, base \o DotZipDot \o Pad3(n))

\* f"{base_name}_merged.zip" (f"{base_name}_unido.zip" in unzipfull.py)
MergedSuffix(m) ==
    IF m = "archive_extractor"
    THEN <<"_", "m", "e", "r", "g", "e", "d">> \o DotZip
    ELSE <<"_", "u", "n", "i", "d", "o">> \o DotZip

MergedPath(m, dir, base) == join(dir, base \o MergedSuffix(m))

(***************************************************************************)
(* The inputs: source paths and the files around them.                     *)
(***************************************************************************)
Stem == <<"a">>

FirstExts == {<<>>, DotZip, <<".", "Z", "I", "P">>}

LastExts ==
    {<<>>, DotZip, <<".", "Z", "i", "p">>, DotRar, Dot7z,
     <<".", "t", "x", "t">>, <<".", "0", "0", "1">>, <<".", "0", "0", "2">>}

SourceNames == {Stem \o e1 \o e2 : e1 \in FirstExts, e2 \in LastExts}

\* the second directory has ".zip." in its own name
SourceDirs == {<<>>, <<"x", ".", "z", "i", "p", ".", "d">>}

SourcePaths == {join(d, n) : d \in SourceDirs, n \in SourceNames}

\* the segment files a directory may hold: a.zip.001, a.zip.002, ...
SegmentFile(dir, k) ==
    join(dir, Stem \o <<".", "z", "i", "p", ".", "0", "0">> \o <<DigitChars[k + 1]>>)

\* a file that already has the name the merged file of stem "a" will get
StaleMerged(m, dir) == join(dir, Stem \o MergedSuffix(m))

\* the bytes of the files: all different, all of different lengths
SegmentBytes(k) == [j \in 1..k |-> 10 * k + j]
StaleBytes == <<90, 91, 92, 93, 94, 95, 96>>
SourceBytes == <<80, 81, 82, 83, 84, 85, 86, 87>>

Candidates(m, p) ==
    {p, StaleMerged(m, dirname(p))}
        \cup {SegmentFile(dirname(p), k) : k \in 1..MaxSegments}

BytesOf(m, p, f) ==
    IF \E k \in 1..MaxSegments : f = SegmentFile(dirname(p), k)
    THEN SegmentBytes(CHOOSE k \in 1..MaxSegments : f = SegmentFile(dirname(p), k))
    ELSE IF f = StaleMerged(m, dirname(p)) THEN StaleBytes
    ELSE SourceBytes

FileSystems(m, p) ==
    {[f \in S |-> BytesOf(m, p, f)] : S \in SUBSET Candidates(m, p)}

Exists(f) == f \in DOMAIN fs

\* no window: extract_archive is called by a program of its own
NoWindow ==
    /\ files = <<>>
    /\ destination = FALSE
    /\ ui = "idle"
    /\ worker_pc = "none"
    /\ clicks = 0
    /\ idx = 0
    /\ extra_threads = <<>>
    /\ current_file_index = 0
    /\ attempted = <<>>
    /\ results_text = <<>>
    /\ widget_writes = {}
    /\ countdown_window = FALSE
    /\ countdown_running = FALSE
    /\ countdown_message = "none"
    /\ countdown_pc = <<>>
    /\ sec = <<>>
    /\ stopped = {}
    /\ after_queue = <<>>
    /\ quit = FALSE

\* the state of a call that has not run yet
Fresh ==
    /\ fs0 = fs
    /\ dest = {}
    /\ pc = "Pending"
    /\ file_size_bytes = NoSize
    /\ handler = "none"
    /\ folder = NoPath
    /\ base_name = NoName
    /\ parts = <<>>
    /\ i = 0
    /\ written = 0
    /\ merged_path = NoPath
    /\ opened = 0
    /\ total_files = 0
    /\ entry_i = 0
    /\ calls = <<>>
    /\ outcome = NoOutcome
    /\ raised = "none"
    /\ phases = <<"Pending">>

Init ==
    /\ impl \in Impls
    /\ archive_path \in SourcePaths
    /\ progress_callback \in BOOLEAN
    /\ fs \in FileSystems(impl, archive_path)
    /\ Fresh
    /\ NoWindow

\* a byte string cut into consecutive chunks of a fixed size, the chunks
\* stored as a.zip.001, a.zip.002, ...
Bytes == {0, 1}
ByteStrings == UNION {[1..n -> Bytes] : n \in 1..MaxBytes}
ChunkCount(b, c) == (Len(b) + c - 1) \div c
Chunk(b, c, k) == SubSeq(b, (k - 1) * c + 1, IF k * c < Len(b) THEN k * c ELSE Len(b))

ChunkFiles(b, c, extra) ==
    [f \in {SegmentFile(<<>>, k) : k \in 1..ChunkCount(b, c)} \cup extra |->
        IF f \in extra THEN StaleBytes
        ELSE Chunk(b, c, CHOOSE k \in 1..ChunkCount(b, c) : f = SegmentFile(<<>>, k))]

\* extract_archive is called on the first chunk of a split byte string
InitRoundTrip ==
    /\ impl \in Impls
    /\ archive_path = SegmentFile(<<>>, 1)
    /\ progress_callback \in BOOLEAN
    /\ \E b \in ByteStrings, c \in 1..MaxChunk, extra \in SUBSET {StaleMerged(impl, <<>>)} :
           fs = ChunkFiles(b, c, extra)
    /\ Fresh
    /\ NoWindow

(***************************************************************************)
(* How a call ends.                                                        *)
(***************************************************************************)
Message(kind, name, size) == [kind |-> kind, name |-> name, size |-> size]

\* return <message>
Return(msg) ==
    /\ outcome' = msg
    /\ raised' = "none"
    /\ pc' = "Done"

\* an exception no except clause names leaves extract_archive
Escape(c) ==
    /\ outcome' = NoOutcome
    /\ raised' = c
    /\ pc' = "Done"

\* TRUE while control is inside the try block of _extract_split_zip
InSplitTry ==
    /\ impl = "archive_extractor"
    /\ handler = "split"
    /\ pc \in {"Opening", "Extracting", "Progress", "Cleanup"}

\* an exception of class c raised inside the try block of extract_archive
Handle(c) ==
    IF InSplitTry /\ c \in SplitCaught
    THEN Return(Message("ExtractionFailed", NoName, NoGB))
    ELSE IF c \in OuterCaught(impl)
    THEN Return(Message("ExtractionFailed", basename(archive_path),
                        SizeGB(file_size_bytes)))
    ELSE Escape(c)

(***************************************************************************)
(* extract_archive, up to the dispatch.                                    *)
(***************************************************************************)
\* the existence check (archive_extractor.py only) and os.path.getsize
Start ==
    /\ pc = "Pending"
    /\ IF Exists(archive_path)
       THEN /\ file_size_bytes' = Len(fs[archive_path])
            /\ pc' = "Classifying"
            /\ UNCHANGED <<outcome, raised>>
       ELSE /\ file_size_bytes' = file_size_bytes
            /\ IF impl = "archive_extractor"
               THEN Return(Message("NotFound", archive_path, NoGB))
               ELSE Escape("OSError")
    /\ UNCHANGED <<impl, fs, fs0, dest, archive_path, progress_callback,
                   handler, folder, base_name, parts, i, written, merged_path,
                   opened, total_files, entry_i, calls>>

\* i = 1, the index join_zip_parts probes first
FirstIndex == 1

\* the if/elif chain: one handler is entered, or the format is refused
Dispatch ==
    /\ pc = "Classifying"
    /\ LET h == Classify(archive_path)
       IN  /\ handler' = h
           /\ IF h = "unsupported"
              THEN /\ Return(Message("UnsupportedFormat", basename(archive_path),
                                     SizeGB(file_size_bytes)))
                   /\ UNCHANGED <<folder, base_name, i>>
              ELSE IF h = "split"
              THEN /\ folder' = dirname(archive_path)
                   /\ base_name' = BaseNameOf(archive_path)
                   /\ i' = FirstIndex
                   /\ pc' = "JoinScan"
                   /\ UNCHANGED <<outcome, raised>>
              ELSE /\ pc' = "Opening"
                   /\ UNCHANGED <<folder, base_name, i, outcome, raised>>
    /\ UNCHANGED <<impl, fs, fs0, dest, archive_path, progress_callback,
                   file_size_bytes, parts, written, merged_path, opened,
                   total_files, entry_i, calls>>

(***************************************************************************)
(* join_zip_parts / juntar_partes_zip.                                     *)
(***************************************************************************)
\* "Parts not found": the message differs in the name it carries
PartsNotFound ==
    Message("SegmentsMissing",
            IF impl = "archive_extractor" THEN basename(archive_path) ELSE archive_path,
            SizeGB(file_size_bytes))

\* an IOError inside join_zip_parts: caught there (None is returned) or not
JoinFault(c) ==
    IF c \in JoinCaught(impl) THEN Return(PartsNotFound) ELSE Handle(c)

\* mutant of NoParts: the "if not parts" test is missing
NoParts_Never == FALSE

\* if not parts
NoParts == parts = <<>>

\* mutant of OpenForWrite: mode "ab", a file already there keeps its bytes
OpenForAppend(f) == [g \in DOMAIN fs \cup {f} |-> IF g \in DOMAIN fs THEN fs[g] ELSE <<>>]

\* the filesystem after open(f, "wb"): f exists and is empty
OpenForWrite(f) == [g \in DOMAIN fs \cup {f} |-> IF g = f THEN <<>> ELSE fs[g]]

\* the loop condition of the scan: the candidate of index n exists
PartExists(n) == Exists(PartPath(folder, base_name, n))

\* one iteration of the while loop, and "if not parts: return None" after it
JoinScan ==
    /\ pc = "JoinScan"
    /\ IF PartExists(i)
       THEN /\ parts' = Append(parts, PartPath(folder, base_name, i))
            /\ i' = i + 1
            /\ UNCHANGED <<pc, outcome, raised>>
       ELSE /\ UNCHANGED <<parts, i>>
            /\ IF NoParts
               THEN Return(PartsNotFound)
               ELSE /\ pc' = "JoinOpen"
                    /\ UNCHANGED <<outcome, raised>>
    /\ UNCHANGED <<impl, fs, fs0, dest, archive_path, progress_callback,
                   file_size_bytes, handler, folder, base_name, written,
                   merged_path, opened, total_files, entry_i, calls>>

\* open(merged_path, "wb"): the file is created or truncated, or open fails
JoinOpen ==
    /\ pc = "JoinOpen"
    /\ LET m == MergedPath(impl, folder, base_name)
       IN  \/ /\ merged_path' = m
              /\ fs' = OpenForWrite(m)
              /\ pc' = "JoinAppend"
              /\ UNCHANGED <<outcome, raised>>
           \/ /\ JoinFault("OSError")
              /\ UNCHANGED <<merged_path, fs>>
    /\ UNCHANGED <<impl, fs0, dest, archive_path, progress_callback,
                   file_size_bytes, handler, folder, base_name, parts, i,
                   written, opened, total_files, entry_i, calls>>

\* mutant of NextPart: the parts are written last to first
NextPart_Reversed == parts[Len(parts) - written]

\* for part in parts: the part the loop is at
NextPart == parts[written + 1]

\* output_file.write(input_file.read()) for the next part, or the return of
\* merged_path after the last; a failed read or write leaves what was written
JoinAppend ==
    /\ pc = "JoinAppend"
    /\ IF written < Len(parts)
       THEN LET part == NextPart
            IN  \/ /\ fs' = [fs EXCEPT ![merged_path] = @ \o fs[part]]
                   /\ written' = written + 1
                   /\ UNCHANGED <<pc, outcome, raised>>
                \/ /\ JoinFault("OSError")
                   /\ UNCHANGED <<fs, written>>
       ELSE /\ pc' = "Opening"
            /\ UNCHANGED <<fs, written, outcome, raised>>
    /\ UNCHANGED <<impl, fs0, dest, archive_path, progress_callback,
                   file_size_bytes, handler, folder, base_name, parts, i,
                   merged_path, opened, total_files, entry_i, calls>>

(***************************************************************************)
(* _extract_zip, _extract_rar, _extract_7z and the tail of                 *)
(* _extract_split_zip (the four branches of extract_archive in             *)
(* unzipfull.py).                                                          *)
(***************************************************************************)
\* the file handed to the codec: the merged file for a split archive
ArchiveFile == IF handler = "split" THEN merged_path ELSE archive_path

\* "Successfully extracted": _extract_zip names the file it was given,
\* unzipfull.py names archive_path
Success ==
    Message("Succeeded",
            IF impl = "archive_extractor" THEN basename(ArchiveFile)
            ELSE basename(archive_path),
            SizeGB(file_size_bytes))

\* ZipFile(...) / RarFile(...) / SevenZipFile(...) and namelist(): the codec
\* lists k entries or raises
OpenArchive ==
    /\ pc = "Opening"
    /\ opened' = opened + 1
    /\ \/ \E k \in 0..MaxEntries :
              /\ total_files' = k
              /\ pc' = "Extracting"
              /\ UNCHANGED <<outcome, raised>>
       \/ \E c \in CodecFaults(handler) :
              /\ Handle(c)
              /\ UNCHANGED total_files
    /\ UNCHANGED <<impl, fs, fs0, dest, archive_path, progress_callback,
                   file_size_bytes, handler, folder, base_name, parts, i,
                   written, merged_path, entry_i, calls>>

\* the position after an entry was extracted: the callback, if there is one
AfterExtract == IF progress_callback THEN "Progress" ELSE "Extracting"

\* ref.extract(file_name, destination_folder) for entry entry_i + 1
ExtractEntry ==
    /\ pc = "Extracting"
    /\ entry_i < total_files
    /\ \/ /\ dest' = dest \cup {entry_i + 1}
          /\ pc' = AfterExtract
          /\ entry_i' = IF progress_callback THEN entry_i ELSE entry_i + 1
          /\ UNCHANGED <<outcome, raised>>
       \/ \E c \in CodecFaults(handler) :
              /\ Handle(c)
              /\ UNCHANGED <<dest, entry_i>>
    /\ UNCHANGED <<impl, fs, fs0, archive_path, progress_callback,
                   file_size_bytes, handler, folder, base_name, parts, i,
                   written, merged_path, opened, total_files, calls>>

\* mutant of ProgressArgs: the callback announces the entry that comes next
ProgressArgs_NextEntry ==
    [index |-> entry_i + 2, total |-> total_files, size |-> SizeGB(file_size_bytes)]

\* mutant of ProgressArgs: enumerate(file_list) without the start index 1
ProgressArgs_ZeroBased ==
    [index |-> entry_i, total |-> total_files, size |-> SizeGB(file_size_bytes)]

\* the arguments of progress_callback(i, total_files, file_size_gb)
ProgressArgs ==
    [index |-> entry_i + 1, total |-> total_files, size |-> SizeGB(file_size_bytes)]

\* the callback runs and returns, or raises any exception
Progress ==
    /\ pc = "Progress"
    /\ \/ /\ calls' = Append(calls, ProgressArgs)
          /\ entry_i' = entry_i + 1
          /\ pc' = "Extracting"
          /\ UNCHANGED <<outcome, raised>>
       \/ \E c \in ExcClasses :
              /\ Handle(c)
              /\ UNCHANGED <<calls, entry_i>>
    /\ UNCHANGED <<impl, fs, fs0, dest, archive_path, progress_callback,
                   file_size_bytes, handler, folder, base_name, parts, i,
                   written, merged_path, opened, total_files>>

\* the loop is over: the success message, after the cleanup for a split archive
Finish ==
    /\ pc = "Extracting"
    /\ entry_i = total_files
    /\ IF handler = "split"
       THEN /\ pc' = "Cleanup"
            /\ UNCHANGED <<outcome, raised>>
       ELSE Return(Success)
    /\ UNCHANGED <<impl, fs, fs0, dest, archive_path, progress_callback,
                   file_size_bytes, handler, folder, base_name, parts, i,
                   written, merged_path, opened, total_files, entry_i, calls>>

\* os.remove(merged_path) (guarded by os.path.exists in archive_extractor.py)
\* removes the file or raises
Cleanup ==
    /\ pc = "Cleanup"
    /\ IF impl = "archive_extractor" /\ ~Exists(merged_path)
       THEN /\ Return(Success)
            /\ UNCHANGED fs
       ELSE \/ /\ fs' = [f \in DOMAIN fs \ {merged_path} |-> fs[f]]
               /\ Return(Success)
            \/ /\ Handle("OSError")
               /\ UNCHANGED fs
    /\ UNCHANGED <<impl, fs0, dest, archive_path, progress_callback,
                   file_size_bytes, handler, folder, base_name, parts, i,
                   written, merged_path, opened, total_files, entry_i, calls>>

\* the phase of the job a position belongs to
PhaseOf(at, msg, exc) ==
    CASE at = "Pending" -> "Pending"
      [] at = "Classifying" -> "Classifying"
      [] at \in {"JoinScan", "JoinOpen", "JoinAppend"} -> "Joining"
      [] at \in {"Opening", "Extracting", "Progress", "Cleanup"} -> "Extracting"
      [] OTHER -> IF exc # "none" THEN "Raised"
                  ELSE IF msg.kind = "Succeeded" THEN "Succeeded"
                  ELSE "Failed"

Phase == PhaseOf(pc, outcome, raised)

\* the history of phases grows when a step changes the phase
Track ==
    phases' = IF PhaseOf(pc', outcome', raised') = Phase THEN phases
              ELSE Append(phases, PhaseOf(pc', outcome', raised'))

\* the window, if there is one, does nothing
Idle == UNCHANGED gui

Next ==
    \/ Start /\ Track /\ Idle
    \/ Dispatch /\ Track /\ Idle
    \/ JoinScan /\ Track /\ Idle
    \/ JoinOpen /\ Track /\ Idle
    \/ JoinAppend /\ Track /\ Idle
    \/ OpenArchive /\ Track /\ Idle
    \/ ExtractEntry /\ Track /\ Idle
    \/ Progress /\ Track /\ Idle
    \/ Finish /\ Track /\ Idle
    \/ Cleanup /\ Track /\ Idle

Spec == Init /\ [][Next]_vars

\* the calls of ArchiveExtractor.extract_archive alone
InitExtractor == Init /\ impl = "archive_extractor"

SpecExtractor == InitExtractor /\ [][Next]_vars

\* the calls on the chunks of a split byte string
SpecRoundTrip == InitRoundTrip /\ [][Next]_vars

(***************************************************************************)
(* The window: ExtractionGUI in archive_extractor.py, the module-level     *)
(* widgets and functions of unzipfull.py.  The main thread runs the        *)
(* button handlers and the callbacks handed to root.after; the batch runs  *)
(* in a worker thread, the countdown in a thread of its own.               *)
(***************************************************************************)
\* widget w was configured by thread t
Write(w, t) == [widget |-> w, thread |-> t]

\* the file lists of a batch
BatchPaths == {Stem \o DotZip, SegmentFile(<<>>, 1)}
Batches == UNION {[1..n -> BatchPaths] : n \in 0..MaxJobs}

\* each listed file is on disk or has been removed since it was listed
BatchFileSystems(fl) ==
    {[f \in S |-> SourceBytes] : S \in SUBSET {fl[k] : k \in 1..Len(fl)}}

\* no call of extract_archive is running
NoCall ==
    /\ archive_path = NoPath
    /\ fs0 = fs
    /\ dest = {}
    /\ pc = "NoCall"
    /\ file_size_bytes = NoSize
    /\ handler = "none"
    /\ folder = NoPath
    /\ base_name = NoName
    /\ parts = <<>>
    /\ i = 0
    /\ written = 0
    /\ merged_path = NoPath
    /\ opened = 0
    /\ total_files = 0
    /\ entry_i = 0
    /\ calls = <<>>
    /\ outcome = NoOutcome
    /\ raised = "none"
    /\ phases = <<>>

\* the window is up, nothing was clicked yet
InitGui ==
    /\ impl \in Impls
    /\ files \in Batches
    /\ fs \in BatchFileSystems(files)
    /\ progress_callback = TRUE
    /\ NoCall
    /\ destination \in BOOLEAN
    /\ ui = "idle"
    /\ worker_pc = "none"
    /\ clicks = 0
    /\ idx = 0
    /\ extra_threads = <<>>
    /\ current_file_index = 0
    /\ attempted = <<>>
    /\ results_text = <<>>
    /\ widget_writes = {}
    /\ countdown_window = FALSE
    /\ countdown_running = FALSE
    /\ countdown_message = "none"
    /\ countdown_pc = <<>>
    /\ sec = <<>>
    /\ stopped = {}
    /\ after_queue = <<>>
    /\ quit = FALSE

\* the locals of extract_archive when it is entered with path p (at =
\* "Pending") and when it is left (at = "NoCall")
SetLocals(p, at) ==
    /\ archive_path' = p
    /\ fs0' = fs
    /\ dest' = {}
    /\ pc' = at
    /\ file_size_bytes' = NoSize
    /\ handler' = "none"
    /\ folder' = NoPath
    /\ base_name' = NoName
    /\ parts' = <<>>
    /\ i' = 0
    /\ written' = 0
    /\ merged_path' = NoPath
    /\ opened' = 0
    /\ total_files' = 0
    /\ entry_i' = 0
    /\ calls' = <<>>
    /\ outcome' = NoOutcome
    /\ raised' = "none"
    /\ phases' = IF at = "Pending" THEN <<"Pending">> ELSE <<>>
    /\ UNCHANGED <<impl, fs, progress_callback>>

\* show_countdown(message) / fechar_apos_contagem(root, 60, mensagem), called
\* by thread t which configures the widgets ws as well: the warning window
\* is created and the countdown thread started
ShowCountdown(message, t, ws) ==
    /\ countdown_window' = TRUE
    /\ countdown_message' = message
    /\ countdown_pc' = Append(countdown_pc, "start")
    /\ sec' = Append(sec, 0)
    /\ widget_writes' = widget_writes \cup ws \cup {Write("countdown_window", t)}
    /\ UNCHANGED <<countdown_running, stopped, after_queue>>

\* os.path.getsize(file) for file in files: raises for a file that is gone
TotalsFail == \E k \in 1..Len(files) : ~Exists(files[k])

\* a batch thread started by a later press of Extract: its loop variable,
\* and whether it is still running
ExtraThread(at, live) == [at |-> at, live |-> live]

\* threading.Thread(target=self.extract_files, ...).start(): the thread of
\* the first press is followed statement by statement, the thread of a later
\* press job by job
StartThread(again) ==
    IF again
    THEN /\ extra_threads' = Append(extra_threads, ExtraThread(0, TRUE))
         /\ UNCHANGED <<worker_pc, idx>>
    ELSE /\ worker_pc' = "start"
         /\ UNCHANGED <<extra_threads, idx>>

\* start_extraction / extrair_todos, in the main thread
Press(again) ==
    /\ ~quit
    /\ clicks' = clicks + 1
    /\ IF ~destination
       THEN /\ ui' = "warned"
            /\ UNCHANGED <<worker_pc, idx, extra_threads, results_text, widget_writes, countdown>>
       ELSE IF files = <<>>
       THEN /\ ui' = "no_files"
            /\ ShowCountdown("no_files", "main", {})
            /\ UNCHANGED <<worker_pc, idx, extra_threads, results_text>>
       ELSE IF TotalsFail
       THEN /\ ui' = "totals_failed"
            /\ UNCHANGED <<worker_pc, idx, extra_threads, results_text, widget_writes, countdown>>
       ELSE /\ ui' = "started"
            /\ StartThread(again)
            /\ IF impl = "archive_extractor"
               THEN /\ results_text' = <<>>
                    /\ widget_writes' = widget_writes \cup {Write("results_text", "main")}
               ELSE UNCHANGED <<results_text, widget_writes>>
            /\ UNCHANGED countdown
    /\ UNCHANGED <<engine, files, destination, current_file_index, attempted, quit>>

\* the Extract button is pressed for the first time
StartExtraction ==
    /\ ui = "idle"
    /\ Press(FALSE)

\* the Extract button is pressed again: nothing disables it
StartAgain ==
    /\ ui # "idle"
    /\ clicks < MaxClicks
    /\ Press(TRUE)

\* the worker thread starts: tarefa() of unzipfull.py clears the log itself
WorkerStart ==
    /\ ~quit
    /\ worker_pc = "start"
    /\ worker_pc' = "loop"
    /\ IF impl = "unzipfull"
       THEN /\ results_text' = <<>>
            /\ widget_writes' = widget_writes \cup {Write("results_text", "worker")}
       ELSE UNCHANGED <<results_text, widget_writes>>
    /\ UNCHANGED <<engine, files, destination, ui, clicks, idx, extra_threads,
                   current_file_index, attempted, countdown, quit>>

\* for idx, file_path in enumerate(files, start=1): the next job is entered
NextJob ==
    /\ ~quit
    /\ worker_pc = "loop"
    /\ idx < Len(files)
    /\ idx' = idx + 1
    /\ current_file_index' = idx + 1
    /\ attempted' = Append(attempted, idx + 1)
    /\ SetLocals(files[idx + 1], "Pending")
    /\ worker_pc' = "call"
    /\ UNCHANGED <<files, destination, ui, clicks, extra_threads, results_text, widget_writes,
                   countdown, quit>>

\* a step of extract_archive inside the worker; update_progress is the
\* callback and configures the progress bar and the status label
InCall ==
    /\ ~quit
    /\ worker_pc = "call"
    /\ UNCHANGED <<batch, countdown, quit>>

UpdateProgress ==
    widget_writes' =
        IF calls' # calls
        THEN widget_writes \cup {Write("progress_bar", "worker"),
                                 Write("status_label", "worker")}
        ELSE widget_writes

\* except clause of extract_files; tarefa() has none
BatchCaught(m) ==
    IF m = "archive_extractor"
    THEN {"BadZipFile", "RarError", "Bad7zFile", "OSError"}
    ELSE {}

\* a line of the result log
Line(job, kind) == [job |-> job, kind |-> kind]

\* the widgets the worker configures when an exception ends the loop:
\* the except clause and the finally clause of extract_files
AbortWrites ==
    IF impl # "archive_extractor" THEN {}
    ELSE IF raised \in BatchCaught(impl)
    THEN {Write("results_text", "worker"), Write("status_label", "worker"),
          Write("progress_bar", "worker")}
    ELSE {Write("progress_bar", "worker")}

\* extract_archive is over: its result is appended to the log, or its
\* exception ends the loop
EndCall ==
    /\ ~quit
    /\ worker_pc = "call"
    /\ pc = "Done"
    /\ IF raised = "none"
       THEN /\ results_text' = Append(results_text, Line(idx, outcome.kind))
            /\ widget_writes' = widget_writes \cup {Write("results_text", "worker")}
            /\ worker_pc' = "loop"
       ELSE /\ results_text' = IF raised \in BatchCaught(impl)
                               THEN Append(results_text, Line(0, "BatchError"))
                               ELSE results_text
            /\ widget_writes' = widget_writes \cup AbortWrites
            /\ worker_pc' = IF raised \in BatchCaught(impl) THEN "finished" ELSE "died"
    /\ SetLocals(NoPath, "NoCall")
    /\ UNCHANGED <<files, destination, ui, clicks, idx, extra_threads,
                   current_file_index, attempted, countdown, quit>>

\* after the loop: the final status, the countdown, the progress bar reset
FinishBatch ==
    /\ ~quit
    /\ worker_pc = "loop"
    /\ idx = Len(files)
    /\ worker_pc' = "finished"
    /\ ShowCountdown("completed", "worker",
                     {Write("status_label", "worker"), Write("progress_bar", "worker")})
    /\ UNCHANGED <<engine, files, destination, ui, clicks, idx, extra_threads,
                   current_file_index, attempted, results_text, quit>>

\* a callback handed to root.after(0, ...) by countdown thread t
After(f, t) == [f |-> f, t |-> t]

\* the countdown threads started so far
Countdowns == 1..Len(countdown_pc)

\* countdown thread t starts: countdown_running = True (archive_extractor.py)
\* and the loop variable
CountdownStart(t) ==
    /\ ~quit
    /\ countdown_pc[t] = "start"
    /\ countdown_pc' = [countdown_pc EXCEPT ![t] = "loop"]
    /\ sec' = [sec EXCEPT ![t] = MaxSeconds]
    /\ countdown_running' = IF impl = "archive_extractor" THEN TRUE
                            ELSE countdown_running
    /\ UNCHANGED <<engine, batch, countdown_window, countdown_message, stopped,
                   after_queue, widget_writes, quit>>

\* one turn of "for sec in range(seconds, 0, -1)" with its time.sleep(1):
\* archive_extractor.py leaves the loop when the flag is down and hands the
\* label update to the main thread, unzipfull.py configures the label itself
CountdownTick(t) ==
    /\ ~quit
    /\ countdown_pc[t] = "loop"
    /\ sec[t] > 0
    /\ IF impl = "archive_extractor"
       THEN IF countdown_running
            THEN /\ after_queue' = Append(after_queue,
                                          After("safe_update_countdown", t))
                 /\ sec' = [sec EXCEPT ![t] = @ - 1]
                 /\ UNCHANGED <<countdown_pc, widget_writes>>
            ELSE /\ countdown_pc' = [countdown_pc EXCEPT ![t] = "after"]
                 /\ UNCHANGED <<after_queue, sec, widget_writes>>
       ELSE /\ widget_writes' = widget_writes \cup {Write("countdown_label", "countdown")}
            /\ sec' = [sec EXCEPT ![t] = @ - 1]
            /\ UNCHANGED <<countdown_pc, after_queue>>
    /\ UNCHANGED <<engine, batch, countdown_window, countdown_running,
                   countdown_message, stopped, quit>>

\* after the loop: "if self.countdown_running" is tested
\* (archive_extractor.py), parent.quit() is called (unzipfull.py)
CountdownEnd(t) ==
    /\ ~quit
    /\ \/ countdown_pc[t] = "after"
       \/ countdown_pc[t] = "loop" /\ sec[t] = 0
    /\ IF impl = "archive_extractor"
       THEN /\ countdown_pc' = [countdown_pc EXCEPT
                                    ![t] = IF countdown_running THEN "quit" ELSE "done"]
            /\ UNCHANGED quit
       ELSE /\ countdown_pc' = [countdown_pc EXCEPT ![t] = "done"]
            /\ quit' = TRUE
    /\ UNCHANGED <<engine, batch, countdown_window, countdown_running,
                   countdown_message, sec, stopped, after_queue, widget_writes>>

\* self.root.after(0, self.root.quit), the test having found the flag up
CountdownQuit(t) ==
    /\ ~quit
    /\ countdown_pc[t] = "quit"
    /\ countdown_pc' = [countdown_pc EXCEPT ![t] = "done"]
    /\ after_queue' = Append(after_queue, After("quit", t))
    /\ UNCHANGED <<engine, batch, countdown_window, countdown_running,
                   countdown_message, sec, stopped, widget_writes, quit>>

\* the main loop runs the oldest callback handed to root.after:
\* safe_update_countdown configures the label if the window is still there,
\* root.quit ends the main loop
RunAfter ==
    /\ ~quit
    /\ after_queue # <<>>
    /\ after_queue' = Tail(after_queue)
    /\ IF Head(after_queue).f = "quit"
       THEN /\ quit' = TRUE
            /\ UNCHANGED widget_writes
       ELSE /\ widget_writes' =
                  IF countdown_window /\ countdown_running
                  THEN widget_writes \cup {Write("countdown_label", "main")}
                  ELSE widget_writes
            /\ UNCHANGED quit
    /\ UNCHANGED <<engine, batch, countdown_window, countdown_running,
                   countdown_message, countdown_pc, sec, stopped>>

\* the user presses Cancel or closes the warning window: stop_countdown, for
\* the countdown started last (archive_extractor.py); in unzipfull.py closing
\* the window is parent.quit
CloseWarning ==
    /\ ~quit
    /\ countdown_window
    /\ IF impl = "archive_extractor"
       THEN /\ countdown_running' = FALSE
            /\ countdown_window' = FALSE
            /\ stopped' = stopped \cup {Len(countdown_pc)}
            /\ UNCHANGED quit
       ELSE /\ quit' = TRUE
            /\ UNCHANGED <<countdown_running, countdown_window, stopped>>
    /\ UNCHANGED <<engine, batch, countdown_message, countdown_pc, sec,
                   after_queue, widget_writes>>

NextGui ==
    \/ StartExtraction
    \/ WorkerStart
    \/ NextJob
    \/ Start /\ Track /\ InCall /\ UpdateProgress
    \/ Dispatch /\ Track /\ InCall /\ UpdateProgress
    \/ JoinScan /\ Track /\ InCall /\ UpdateProgress
    \/ JoinOpen /\ Track /\ InCall /\ UpdateProgress
    \/ JoinAppend /\ Track /\ InCall /\ UpdateProgress
    \/ OpenArchive /\ Track /\ InCall /\ UpdateProgress
    \/ ExtractEntry /\ Track /\ InCall /\ UpdateProgress
    \/ Progress /\ Track /\ InCall /\ UpdateProgress
    \/ Finish /\ Track /\ InCall /\ UpdateProgress
    \/ Cleanup /\ Track /\ InCall /\ UpdateProgress
    \/ EndCall
    \/ FinishBatch
    \/ \E t \in Countdowns : CountdownStart(t)
    \/ \E t \in Countdowns : CountdownTick(t)
    \/ \E t \in Countdowns : CountdownEnd(t)
    \/ \E t \in Countdowns : CountdownQuit(t)
    \/ RunAfter
    \/ CloseWarning

\* the window and its threads, for both implementations
SpecGui == InitGui /\ [][NextGui]_vars

\* the window of ExtractionGUI alone
InitGuiExtractor == InitGui /\ impl = "archive_extractor"

SpecGuiExtractor == InitGuiExtractor /\ [][NextGui]_vars

\* what a call of extract_archive returns
OutcomeKinds ==
    {"Succeeded", "NotFound", "UnsupportedFormat", "SegmentsMissing", "ExtractionFailed"}

\* the widgets a batch thread configures during one job
JobWrites ==
    {Write("progress_bar", "worker"), Write("status_label", "worker"),
     Write("results_text", "worker")}

\* one job of the batch thread w of a later press: the index is published,
\* extract_archive returns some message, which is logged, or raises, which
\* ends the thread; tarefa() of unzipfull.py clears the log first
ExtraJob(w) ==
    /\ ~quit
    /\ extra_threads[w].live
    /\ extra_threads[w].at < Len(files)
    /\ current_file_index' = extra_threads[w].at + 1
    /\ attempted' = Append(attempted, extra_threads[w].at + 1)
    /\ \/ \E kind \in OutcomeKinds :
             /\ results_text' =
                    Append(IF impl = "unzipfull" /\ extra_threads[w].at = 0 THEN <<>>
                           ELSE results_text,
                           Line(extra_threads[w].at + 1, kind))
             /\ extra_threads' = [extra_threads EXCEPT ![w] = ExtraThread(@.at + 1, TRUE)]
             /\ widget_writes' = widget_writes \cup JobWrites
       \/ /\ extra_threads' = [extra_threads EXCEPT ![w] = ExtraThread(@.at, FALSE)]
          /\ widget_writes' = widget_writes \cup
                 (IF impl = "archive_extractor" THEN {Write("progress_bar", "worker")}
                  ELSE {})
          /\ UNCHANGED results_text
    /\ UNCHANGED <<engine, files, destination, ui, worker_pc, clicks, idx,
                   countdown, quit>>

\* the batch thread w of a later press is through its loop
ExtraFinish(w) ==
    /\ ~quit
    /\ extra_threads[w].live
    /\ extra_threads[w].at = Len(files)
    /\ extra_threads' = [extra_threads EXCEPT ![w] = ExtraThread(@.at, FALSE)]
    /\ ShowCountdown("completed", "worker",
                     {Write("status_label", "worker"), Write("progress_bar", "worker")})
    /\ UNCHANGED <<engine, files, destination, ui, worker_pc, clicks, idx,
                   current_file_index, attempted, results_text, quit>>

NextClicks ==
    \/ NextGui
    \/ StartAgain
    \/ \E w \in 1..Len(extra_threads) : ExtraJob(w)
    \/ \E w \in 1..Len(extra_threads) : ExtraFinish(w)

\* the file lists looked at when Extract is pressed more than once: no
\* file or one file
ClickBatches == {<<>>} \cup {<<p>> : p \in BatchPaths}

InitClicks == InitGui /\ files \in ClickBatches

\* the window when Extract may be pressed more than once
SpecClicks == InitClicks /\ [][NextClicks]_vars

\* the same for ExtractionGUI alone
InitClicksExtractor == InitClicks /\ impl = "archive_extractor"

SpecClicksExtractor == InitClicksExtractor /\ [][NextClicks]_vars

TypeOK ==
    /\ impl \in Impls
    /\ pc \in {"Pending", "Classifying", "JoinScan", "JoinOpen", "JoinAppend",
               "Opening", "Extracting", "Progress", "Cleanup", "Done", "NoCall"}
    /\ handler \in {"none", "zip", "rar", "7z", "split", "unsupported"}
    /\ raised \in ExcClasses \cup {"none"}
    /\ entry_i \in 0..total_files
    /\ dest \subseteq 1..total_files

(***************************************************************************)
(* The claims.  Their vocabulary is defined here from the words of the     *)
(* claims, apart from the operators that model the code.                   *)
(***************************************************************************)
Returned == pc = "Done" /\ raised = "none"

FailureKinds == {"NotFound", "UnsupportedFormat", "SegmentsMissing", "ExtractionFailed"}

\* the source existed when the call was made, with this many bytes
SourceExisted == archive_path \in DOMAIN fs0
SourceSizeGB == [num |-> Len(fs0[archive_path]), den |-> 1024 * 1024 * 1024]

\* C1: no exception ever escapes extract_archive to its caller, whatever the
\* filesystem, the codec or the progress callback raise during the call.
C1_NoExceptionEscapes == raised = "none"

\* C2: after a SplitZip call has returned, whether the extraction of the
\* merged archive succeeded or failed, the merged temporary file does not
\* exist on disk.
C2_MergedFileRemoved ==
    (Returned /\ handler = "split" /\ opened > 0) => ~Exists(merged_path)

\* C3: a successful extraction of an archive with K entries invokes the
\* supplied progress callback exactly K times, with entryIndex 1..K in
\* ascending order, entryTotal = K and the archive's size on every call.
C3_ProgressExactlyK ==
    (Returned /\ outcome.kind = "Succeeded" /\ progress_callback)
        => calls = [k \in 1..total_files |->
                       [index |-> k, total |-> total_files, size |-> SourceSizeGB]]

\* C3 witness: a successful extraction that reported at least two entries
C3_Witness ==
    /\ Returned
    /\ outcome.kind = "Succeeded"
    /\ progress_callback
    /\ total_files >= 2
    /\ Len(calls) = total_files

\* the steps of the job's state machine; a failure may end any phase
PhaseOrder ==
    {<<"Pending", "Classifying">>, <<"Classifying", "Joining">>,
     <<"Classifying", "Extracting">>, <<"Joining", "Extracting">>,
     <<"Extracting", "Succeeded">>}
        \cup {<<ph, "Failed">> : ph \in {"Pending", "Classifying", "Joining", "Extracting"}}

PhasesSeen == {phases[k] : k \in 1..Len(phases)}

\* C4: every call follows Pending -> Classifying -> (Joining, only for
\* SplitZip) -> Extracting -> terminal, ends in exactly one outcome that is
\* Succeeded or Failed(kind), the terminal state is absorbing and no handler
\* is entered twice.
C4_Lifecycle ==
    /\ \A k \in 1..(Len(phases) - 1) : <<phases[k], phases[k + 1]>> \in PhaseOrder
    /\ ("Joining" \in PhasesSeen) <=> (handler = "split")
    /\ opened <= 1
    /\ pc = "Done" =>
          /\ outcome.kind \in {"Succeeded"} \cup FailureKinds
          /\ raised = "none"
          /\ ~ENABLED Next

\* the same letter, whatever its case
SameLetter(c, d) ==
    \/ c = d
    \/ {c, d} \in {{"a", "A"}, {"i", "I"}, {"p", "P"}, {"r", "R"}, {"z", "Z"}}

\* s and t are equal when case is ignored
EqualNoCase(s, t) ==
    /\ Len(s) = Len(t)
    /\ \A k \in 1..Len(s) : SameLetter(s[k], t[k])

\* s ends in suffix / contains sub, when case is ignored
EndsInNoCase(s, suffix) ==
    \E k \in 0..Len(s) : EqualNoCase(SubSeq(s, k + 1, Len(s)), suffix)
ContainsNoCase(s, sub) ==
    \E k \in 1..Len(s) : \E l \in k..Len(s) : EqualNoCase(SubSeq(s, k, l), sub)

HasArchiveSuffix ==
    \/ EndsInNoCase(archive_path, <<".", "z", "i", "p">>)
    \/ EndsInNoCase(archive_path, <<".", "r", "a", "r">>)
    \/ EndsInNoCase(archive_path, <<".", "7", "z">>)

HasZipDot == ContainsNoCase(archive_path, <<".", "z", "i", "p", ".">>)

Dispatched == handler # "none"

\* C5: a path whose lower-cased form ends in .zip, .rar or .7z is dispatched
\* to the Zip, Rar or SevenZip handler respectively, never to the SplitZip
\* handler, even when it also contains ".zip." elsewhere.
C5_SuffixDispatch ==
    Dispatched =>
        /\ EndsInNoCase(archive_path, <<".", "z", "i", "p">>) => handler = "zip"
        /\ EndsInNoCase(archive_path, <<".", "r", "a", "r">>) => handler = "rar"
        /\ EndsInNoCase(archive_path, <<".", "7", "z">>) => handler = "7z"

\* C5 witness: a path that contains ".zip." and ends in .rar reached the Rar
\* handler
C5_Witness ==
    /\ handler = "rar"
    /\ HasZipDot
    /\ opened = 1

\* C6: a path that contains ".zip." and does not end in .zip, .rar or .7z
\* (case ignored) is dispatched to the split-ZIP handler.
C6_SplitDispatch ==
    (Dispatched /\ HasZipDot /\ ~HasArchiveSuffix) => handler = "split"

\* C6 witness: an upper-case .ZIP.001 path entered the split-ZIP handler
C6_Witness ==
    /\ handler = "split"
    /\ basename(archive_path) = <<"a", ".", "Z", "I", "P", ".", "0", "0", "1">>
    /\ pc = "JoinScan"

\* C7: when the source path does not exist at call time, extract_archive
\* returns NotFound at once: no size computed, no handler dispatched, no
\* progress call, no file created or deleted.
C7_NotFoundImmediately ==
    (pc = "Done" /\ ~SourceExisted) =>
        /\ raised = "none"
        /\ outcome.kind = "NotFound"
        /\ file_size_bytes = NoSize
        /\ handler = "none"
        /\ calls = <<>>
        /\ fs = fs0
        /\ dest = {}

\* C8: an existing source path that matches none of the recognised patterns
\* gets an UnsupportedFormat failure, no progress call, and nothing is
\* written to the destination or to the source directory.
C8_UnsupportedFormat ==
    (SourceExisted /\ ~HasArchiveSuffix /\ ~HasZipDot) =>
        /\ calls = <<>>
        /\ fs = fs0
        /\ dest = {}
        /\ opened = 0
        /\ pc = "Done" => (raised = "none" /\ outcome.kind = "UnsupportedFormat")

\* C8 witness: the call on an existing .txt file has returned
C8_Witness ==
    /\ Returned
    /\ SourceExisted
    /\ EndsInNoCase(archive_path, <<".", "t", "x", "t">>)
    /\ ~HasZipDot
    /\ outcome.kind = "UnsupportedFormat"

\* the file named {base_name}.zip.00k in the folder handed to join_zip_parts
NamedSegment(k) ==
    (IF folder = <<>> THEN <<>> ELSE folder \o <<"/">>)
        \o base_name \o <<".", "z", "i", "p", ".", "0", "0">> \o <<DigitChars[k + 1]>>

SegmentExisted(k) == NamedSegment(k) \in DOMAIN fs0

\* m, where m + 1 is the smallest index whose segment is missing
LeadingRun ==
    CHOOSE m \in 0..MaxSegments :
        /\ \A k \in 1..m : SegmentExisted(k)
        /\ m < MaxSegments => ~SegmentExisted(m + 1)

RECURSIVE BytesUpTo(_)
\* the bytes of segments 1..m, in ascending order
BytesUpTo(m) == IF m = 0 THEN <<>> ELSE BytesUpTo(m - 1) \o fs0[NamedSegment(m)]

\* join_zip_parts has returned the merged path and it is not yet removed
Joined ==
    /\ handler = "split"
    /\ pc \in {"Opening", "Extracting", "Progress", "Cleanup"}

\* C9: join_zip_parts collects exactly the leading contiguous run of
\* segments 1..m, m + 1 being the smallest missing index: segments after a
\* gap are never included and the merged file holds only the bytes of
\* segments 1..m.
C9_LeadingRunOnly ==
    handler = "split" =>
        /\ \A k \in 1..Len(parts) : k <= LeadingRun /\ parts[k] = NamedSegment(k)
        /\ pc # "JoinScan" => Len(parts) = LeadingRun
        /\ Joined => fs[merged_path] = BytesUpTo(LeadingRun)

\* C9 witness: 001 and 003 exist, 002 is missing, and the merged file
\* returned by the join holds the bytes of 001 alone
C9_Witness ==
    /\ Joined
    /\ pc = "Opening"
    /\ SegmentExisted(1) /\ ~SegmentExisted(2) /\ SegmentExisted(3)
    /\ fs[merged_path] = fs0[NamedSegment(1)]

\* C10: when {base}.zip.001 does not exist, join_zip_parts returns None
\* without raising, and extract_archive on that split path returns
\* SegmentsMissing with no progress call and without ever creating the
\* merged file.
C10_NoFirstSegment ==
    (handler = "split" /\ ~SegmentExisted(1)) =>
        /\ pc \in {"JoinScan", "Done"}
        /\ merged_path = NoPath
        /\ fs = fs0
        /\ calls = <<>>
        /\ opened = 0
        /\ pc = "Done" => (raised = "none" /\ outcome.kind = "SegmentsMissing")

\* C10 witness: the call on an existing a.zip.002 returned SegmentsMissing
\* because a.zip.001 is not there
C10_Witness ==
    /\ Returned
    /\ handler = "split"
    /\ ~SegmentExisted(1) /\ SegmentExisted(2)
    /\ archive_path = NamedSegment(2)
    /\ outcome.kind = "SegmentsMissing"

\* fs0 holds exactly the chunks of b, cut at size c, as segments 1, 2, ...
WasSplitFrom(b, c) ==
    /\ \A k \in 1..ChunkCount(b, c) :
          /\ NamedSegment(k) \in DOMAIN fs0
          /\ fs0[NamedSegment(k)] = Chunk(b, c, k)
    /\ NamedSegment(ChunkCount(b, c) + 1) \notin DOMAIN fs0

\* C11: when join_zip_parts succeeds with segments 1..m, the merged file is
\* the bytes of segment 1, segment 2, ..., segment m in ascending order, with
\* nothing added, dropped or reordered; so a byte string cut into
\* consecutive chunks and joined again is the original byte string.
C11_StrictConcatenation ==
    handler = "split" =>
        /\ (pc = "JoinAppend" \/ Joined) => fs[merged_path] = BytesUpTo(written)
        /\ Joined =>
              /\ written = Len(parts)
              /\ \A b \in ByteStrings : \A c \in 1..MaxChunk :
                    WasSplitFrom(b, c) => fs[merged_path] = b

\* C11 witness: a byte string of three or more chunks, not all bytes equal,
\* has been joined back
C11_Witness ==
    /\ Joined
    /\ Len(parts) >= 3
    /\ \E b \in ByteStrings : \E c \in 1..MaxChunk :
          /\ WasSplitFrom(b, c)
          /\ b[1] # b[Len(b)]
          /\ fs[merged_path] = b

\* C12: a split job ends with kind SegmentsMissing only when segment 001
\* does not exist; when it exists, a failure is reported as another kind.
C12_SegmentsMissingOnlyWithoutFirst ==
    (Returned /\ handler = "split" /\ outcome.kind = "SegmentsMissing")
        => ~SegmentExisted(1)

\* C13: when os.remove of the merged file fails after a successful
\* extraction, the failure is swallowed and the outcome is still the
\* success outcome.
C13_CleanupBestEffort ==
    [][(pc = "Cleanup" /\ pc' = "Done")
          => (raised' = "none" /\ outcome'.kind = "Succeeded")]_vars

\* C14: every success outcome carries the basename of the path given to
\* extract_archive and the size computed for that path, for a split archive
\* too.
C14_SuccessNamesSource ==
    (Returned /\ outcome.kind = "Succeeded")
        => /\ outcome.name = basename(archive_path)
           /\ outcome.size = SourceSizeGB

\* C15: the size is computed once, from the source path, before the
\* classification; every progress event and the outcome of the job carry
\* that value, which for a split archive is the size of the named segment
\* and not that of the merged file or of all segments.
C15_SizeComputedOnce ==
    SourceExisted =>
        /\ pc # "Pending" => file_size_bytes = Len(fs0[archive_path])
        /\ \A k \in 1..Len(calls) : calls[k].size = SourceSizeGB
        /\ Returned => outcome.size = SourceSizeGB

C17_PartialExtraction ==
    [][(pc = "Extracting" /\ pc' = "Done" /\ entry_i < total_files)
          => /\ dest' = dest
             /\ dest = 1..entry_i
             /\ calls' = calls
             /\ progress_callback => /\ Len(calls) = entry_i
                                     /\ \A k \in 1..entry_i : calls[k].index = k
             /\ raised' = "none"
             /\ outcome'.kind = "ExtractionFailed"]_vars

\* the batch the Extract button asked for is over
BatchOver == ui = "totals_failed" \/ worker_pc \in {"finished", "died"}

\* C18: a failure of one job does not abort the batch: every one of the N
\* jobs is attempted, and the result log gets exactly one outcome line per
\* job, in job order.
C18_EveryJobAttempted ==
    BatchOver =>
        /\ attempted = [k \in 1..Len(files) |-> k]
        /\ Len(results_text) = Len(files)
        /\ \A k \in 1..Len(files) : results_text[k].job = k

\* the widgets the claim names
BatchWidgets == {"progress_bar", "status_label", "results_text"}

\* C19: the batch runs in a worker thread and every update of the progress
\* bar, the status label and the result log is handed to the main thread: the
\* worker thread never configures one of these widgets itself.
C19_WidgetsOnMainThread ==
    \A w \in widget_writes : w.widget \in BatchWidgets => w.thread = "main"

\* C20: when Extract is pressed with no files selected, the application
\* does not close: root.quit is never called as a consequence.
C20_NoFilesNeverQuits == ~(countdown_message = "no_files" /\ quit)

\* C22: extract_archive leaves the source directory as it found it, apart
\* from its own temporary file: every file that existed before the call, a
\* file already named {baseName}_merged.zip included, exists with the same
\* content after the call.
C22_SourceDirectoryKept ==
    pc = "Done" => \A f \in DOMAIN fs0 : f \in DOMAIN fs /\ fs[f] = fs0[f]

\* the name of the source file: what follows the last "/" of archive_path
SourceName ==
    LET slashes == {k \in 1..Len(archive_path) : archive_path[k] = "/"}
        last == IF slashes = {} THEN 0
                ELSE CHOOSE k \in slashes : \A l \in slashes : l <= k
    IN  SubSeq(archive_path, last + 1, Len(archive_path))

\* s has ".zip." in any case at positions k + 1 .. k + 5
ZipDotAt(s, k) ==
    /\ k + 5 <= Len(s)
    /\ EqualNoCase(SubSeq(s, k + 1, k + 5), <<".", "z", "i", "p", ".">>)

\* C23: for every existing source path dispatched to the split handler the
\* derived base name is the part of the file name before its first ".zip.",
\* so the file's own name starts with "{baseName}.zip."; also when that
\* ".zip." is upper- or mixed-case or lies in a directory component.
C23_BaseNameAgrees ==
    (handler = "split" /\ SourceExisted /\ pc # "Classifying") =>
        \E k \in 0..Len(SourceName) :
            /\ base_name = SubSeq(SourceName, 1, k)
            /\ ZipDotAt(SourceName, k)
            /\ \A l \in 0..(k - 1) : ~ZipDotAt(SourceName, l)

\* the batch threads that were started and have not ended
ActiveBatchThreads ==
    (IF worker_pc \in {"start", "loop", "call"} THEN 1 ELSE 0)
        + Cardinality({w \in 1..Len(extra_threads) : extra_threads[w].live})

\* C21: at most one batch thread is active at any time: pressing Extract
\* while a batch is running never gives two worker threads that write the
\* shared status, the progress bar and the result log at the same time.
C21_OneBatchThread == ActiveBatchThreads <= 1

\* C24: once stop_countdown was called for a countdown, the thread of that
\* countdown hands no root.quit to the main loop afterwards, whatever the
\* interleaving with stop_countdown and with a later show_countdown that
\* sets countdown_running again.
C24_StoppedCountdownNeverQuits ==
    [][\A t \in stopped :
          ~(/\ Len(after_queue') = Len(after_queue) + 1
            /\ after_queue'[Len(after_queue')] = After("quit", t))]_vars

====
